---- MODULE Spec2Model ----
(***************************************************************************)
(* pc-dashboard: the schema store, the migration runner, the ingestion     *)
(* pipeline and the service entry point, as a state machine.               *)
(*                                                                         *)
(* The store is a SQLite file that outlives the process: the variables     *)
(* schema_version, production_records, item_master and aux_tables are its  *)
(* committed content.  One process (src/src/main.py) works on it at a      *)
(* time; it may be killed between two statements and started again.        *)
(*                                                                         *)
(* settings.ITEM_MASTER_PATH and settings.DATA_FILE_PATH are read by the   *)
(* code but their values are paths: the model draws the content found at   *)
(* the path (a batch file, a master file, or no file) as the input.        *)
(*                                                                         *)
(* Four specifications share the variables.  Spec is the process of        *)
(* main(): migrations, then the one-shot master sync or the hourly service *)
(* loop.                                                                   *)
(* ProcessorSpec is a DataProcessor used directly on one connection, with  *)
(* calls of process_file_and_load_to_db and sync_master_from_csv in any    *)
(* order; the sync is split at its DELETE so that a failure or the death   *)
(* of the process between the DELETE and the commit is a step of its own.  *)
(* The implicit transaction of the sqlite3 connection is the variable      *)
(* pending.  ValidatorSpec applies the field validators of                 *)
(* ProductionRecord to one value, and ReportSpec applies                   *)
(* generate_weekly_summary to one DataFrame; both keep the argument in arg *)
(* and the value returned in result.                                       *)
(***************************************************************************)
EXTENDS Integers, Sequences, FiniteSets, TLC

VARIABLES
    migrations_dir,      \* the files of MIGRATIONS_DIR that match [0-9][0-9][0-9]_*.py
    schema_version,      \* table schema_version: [exists, version]
    production_records,  \* table production_records: [exists, unique, rows]
    item_master,         \* table item_master: [exists, rows]
    aux_tables,          \* the auxiliary tables units 004 and 005 create
    pc,                  \* where the process of main() stands
    mode,                \* args.sync_master: "sync" or "service"
    current_version,     \* apply_migrations: local current_version
    migration_files,     \* apply_migrations: local migration_files (sorted)
    idx,                 \* apply_migrations: position of the for loop in migration_files
    starts,              \* number of processes started so far
    runs,                \* number of pipeline runs started so far
    call,                \* history: the apply_migrations call of this process, until main moves on
    applied,             \* history: the units whose body has committed on this store
    last_run,            \* history: the pipeline run that just ended (while the loop sleeps)
    exit_code,           \* the exit status of the process: <<>> while it runs, <<n>> once it ended
    snapshot,            \* DataProcessor.item_master_df of a processor used directly
    pending,             \* item_master as the open transaction of that processor's connection sees it
    last_sync,           \* history: the sync_master_from_csv call that just ended
    arg,                 \* the value handed to a field validator of ProductionRecord
    result               \* what the validator gave for arg: [fn, value]

storeVars == <<schema_version, production_records, item_master, aux_tables>>
migVars   == <<current_version, migration_files, idx>>
apiVars   == <<snapshot, pending, last_sync>>
fnVars    == <<arg, result>>
vars == <<migrations_dir, schema_version, production_records, item_master, aux_tables,
          pc, mode, current_version, migration_files, idx, starts, runs,
          call, applied, last_run, exit_code, snapshot, pending, last_sync,
          arg, result>>

----------------------------------------------------------------------------
(* Bounds of the model *)

MaxStarts == 2      \* processes started on the same store
MaxRuns   == 2      \* pipeline runs over all processes
MaxBatch  == 2      \* data rows of a batch file
MaxLen    == 3      \* characters of a value handed to clean_sap_numbers
MaxRecords == 2     \* rows of the DataFrame handed to ReportGenerator

NULL == "NULL"

----------------------------------------------------------------------------
(* Migration units on disk *)

\* A migration file NNN_<stem>.py: prefix is int(name.split('_')[0]), ord the
\* rank of its stem among the files with the same prefix (sorted() compares
\* the whole path), body the upgrade code it holds.
MigrationFile(p, o, b) == [prefix |-> p, ord |-> o, body |-> b]

\* The five files of the repository's migrations directory.
RepoFiles ==
    { MigrationFile(1, 1, "001"), MigrationFile(2, 1, "002"),
      MigrationFile(3, 1, "003"), MigrationFile(4, 1, "004"),
      MigrationFile(5, 1, "005") }

\* The same directory after an operator copied unit 004 under a second stem:
\* two files declare sequence number 4.
DupFiles == RepoFiles \cup { MigrationFile(4, 2, "004") }

Directories == { RepoFiles, DupFiles }

\* Path order of two files of the directory.
PathLeq(f, g) ==
    \/ f.prefix < g.prefix
    \/ f.prefix = g.prefix /\ f.ord <= g.ord

\* Faulty variant of the glob: the files as a directory listing may return
\* them when they are not sorted, here the greatest path first and the
\* others after it.
RECURSIVE ListedAfter(_)
ListedAfter(S) ==
    IF S = {} THEN <<>>
    ELSE LET m == CHOOSE f \in S : \A g \in S : PathLeq(f, g)
         IN  <<m>> \o ListedAfter(S \ {m})

DirectoryOrder(S) ==
    IF S = {} THEN <<>>
    ELSE LET first == CHOOSE f \in S : \A g \in S : PathLeq(g, f)
         IN  <<first>> \o ListedAfter(S \ {first})

RECURSIVE SortedFiles(_)
\* sorted(MIGRATIONS_DIR.glob("[0-9][0-9][0-9]_*.py"))
SortedFiles(S) ==
    IF S = {} THEN <<>>
    ELSE LET m == CHOOSE f \in S : \A g \in S : PathLeq(f, g)
         IN  <<m>> \o SortedFiles(S \ {m})

\* latest_script_version = int(migration_files[-1].name.split('_')[0])
LatestScriptVersion(files) == files[Len(files)].prefix

----------------------------------------------------------------------------
(* The store *)

\* A row of production_records.  order_number and input_datetime are the
\* columns of the UNIQUE constraint; item_code and amount stand for the rest.
StoredRow(i, o, t, c, a) ==
    [id |-> i, order_number |-> o, input_datetime |-> t, item_code |-> c, amount |-> a,
     created_at |-> "insert"]

Key(r) == <<r.order_number, r.input_datetime>>

KeysOf(rows) == { Key(rows[i]) : i \in 1..Len(rows) }

HasDuplicateKeys(rows) ==
    \E i, j \in 1..Len(rows) : i < j /\ Key(rows[i]) = Key(rows[j])

NoTable == [exists |-> FALSE, unique |-> FALSE, rows |-> <<>>]

\* CREATE TABLE IF NOT EXISTS production_records (...): no UNIQUE constraint.
CreateTables(pr) ==
    IF pr.exists THEN pr ELSE [exists |-> TRUE, unique |-> FALSE, rows |-> <<>>]

\* Faulty variant of initialize_schema_version: the row is written without
\* looking whether the table already holds one.
InitializeSchemaVersionReset(sv) == [exists |-> TRUE, version |-> 0]

\* initialize_schema_version: CREATE TABLE IF NOT EXISTS, and version 0 only
\* when the table is empty.
InitializeSchemaVersion(sv) ==
    IF sv.exists THEN sv ELSE [exists |-> TRUE, version |-> 0]

\* get_schema_version: 0 when the table does not exist.
GetSchemaVersion(sv) == IF sv.exists THEN sv.version ELSE 0

\* An item master file found at settings.ITEM_MASTER_PATH (or none): its data
\* rows in file order.
\* standard_cost REAL is nullable: <<s>> for a cost, <<>> for NULL.
MasterRow(c, s) == [item_code |-> c, standard_cost |-> <<s>>]
NullCostRow(c)  == [item_code |-> c, standard_cost |-> <<>>]
CostOnlyRow(s)  == [item_code |-> NULL, standard_cost |-> <<s>>]

\* The columns the sync reads, and a file by the columns of its header.
MasterColumns == {"item_code", "standard_cost"}
MasterFile(rows, cols) == [found |-> TRUE, columns |-> cols, rows |-> rows]
NoMasterFile == [found |-> FALSE, columns |-> {}, rows |-> <<>>]
\* A file of no bytes: read_csv raises EmptyDataError.
EmptyMasterFile == MasterFile(<<>>, {})
MasterFiles ==
    { NoMasterFile, EmptyMasterFile,
      MasterFile(<<MasterRow("I1", 3), MasterRow("I2", 5)>>, MasterColumns),
      MasterFile(<<MasterRow("I1", 3), MasterRow("I1", 7)>>, MasterColumns) }

\* Files whose header lacks the standard cost column or the item code column.
FilesLackingColumn ==
    { MasterFile(<<NullCostRow("I1"), NullCostRow("I3")>>, {"item_code"}),
      MasterFile(<<CostOnlyRow(3)>>, {"standard_cost"}) }

NoMaster == [exists |-> FALSE, rows |-> {}]

MasterCodes(rows) == { rows[i].item_code : i \in 1..Len(rows) }

----------------------------------------------------------------------------
(* The bodies of the migration units *)

Raised(pr, im, aux) ==
    [raised |-> TRUE, production_records |-> pr, item_master |-> im, aux_tables |-> aux]
Committed(pr, im, aux) ==
    [raised |-> FALSE, production_records |-> pr, item_master |-> im, aux_tables |-> aux]

\* 001_create_production_records_table.py is a script with a main(), not a
\* migration unit: loading it raises ImportError (database.py exports no
\* DEFAULT_DB_PATH), and it defines no upgrade, for which apply_migrations
\* raises AttributeError.  Either way the unit fails and the store is untouched.
Upgrade001(pr, im, aux) == Raised(pr, im, aux)

\* The seeding of 002 fails: read_csv raises on a missing or an empty file,
\* to_sql on rows that break the primary key.
SeedingRaises(seed) ==
    \/ ~seed.found
    \/ seed.columns = {}
    \/ Cardinality(MasterCodes(seed.rows)) # Len(seed.rows)

\* Faulty variant of 002: the error of the seeding leaves the unit.
Upgrade002SeedingFatal(pr, im, aux, seed) ==
    LET table == IF im.exists THEN im ELSE [exists |-> TRUE, rows |-> {}]
    IN  IF table.rows = {} /\ SeedingRaises(seed)
        THEN Raised(pr, table, aux)
        ELSE Committed(pr,
                       IF table.rows = {}
                       THEN [table EXCEPT !.rows = { seed.rows[i] : i \in 1..Len(seed.rows) }]
                       ELSE table,
                       aux)

\* 002: CREATE TABLE IF NOT EXISTS item_master; seed it from the master file
\* when it is empty.  A missing or unreadable file, or a file whose rows
\* break the primary key, is logged and leaves the table empty; the unit
\* still commits.
Upgrade002(pr, im, aux, seed) ==
    LET table  == IF im.exists THEN im ELSE [exists |-> TRUE, rows |-> {}]
        seeded == IF SeedingRaises(seed)
                  THEN {}
                  ELSE { seed.rows[i] : i \in 1..Len(seed.rows) }
    IN  Committed(pr,
                  IF table.rows = {} THEN [table EXCEPT !.rows = seeded] ELSE table,
                  aux)

\* Faulty variant of the except clause of 003: without the rollback the
\* tables stay as the failed statement found them.
WithoutRollback(pr, aux, reached) == reached

\* conn.rollback() in the except clause of 003: every statement since BEGIN
\* TRANSACTION is undone, the rename and the CREATE TABLE included.
Rollback(pr, aux, reached) == [production_records |-> pr, aux_tables |-> aux]

\* INSERT INTO production_records (id, ..., amount) SELECT ... FROM
\* production_records_old: created_at is not in the column list and takes its
\* default, the time of the copy.
CopyRows(rows) == [ i \in 1..Len(rows) |-> [rows[i] EXCEPT !.created_at = "migration_003"] ]

\* Faulty variant of 003: the new table is created without the UNIQUE clause.
Upgrade003WithoutUnique(pr, im, aux) ==
    IF ~pr.exists
    THEN Raised(pr, im, aux)
    ELSE Committed([exists |-> TRUE, unique |-> FALSE, rows |-> CopyRows(pr.rows)], im, aux)

\* 003: inside one transaction rename production_records to
\* production_records_old, create production_records again with
\* UNIQUE(order_number, input_datetime), copy every row with its id and drop
\* the old table.  A missing table fails at the rename; a copy that breaks
\* the constraint fails with the old table renamed and the new one empty.
\* The except clause rolls back and raises.
Upgrade003(pr, im, aux) ==
    LET created == [production_records |-> [exists |-> TRUE, unique |-> TRUE, rows |-> <<>>],
                    aux_tables |-> aux \cup {"production_records_old"}]
        undone  == Rollback(pr, aux, created)
    IN  IF ~pr.exists
        THEN Raised(pr, im, aux)
        ELSE IF HasDuplicateKeys(pr.rows)
        THEN Raised(undone.production_records, im, undone.aux_tables)
        ELSE Committed([exists |-> TRUE, unique |-> TRUE, rows |-> CopyRows(pr.rows)], im, aux)

\* 004: CREATE TABLE IF NOT EXISTS wip_details, zp02_records, zp58_records.
Upgrade004(pr, im, aux) ==
    Committed(pr, im, aux \cup {"wip_details", "zp02_records", "zp58_records"})

\* 005: CREATE TABLE IF NOT EXISTS storage_locations, zs65_records.
Upgrade005(pr, im, aux) ==
    Committed(pr, im, aux \cup {"storage_locations", "zs65_records"})

\* migration_module.upgrade(conn) for file f.  store_ok = FALSE is a store
\* error (sqlite3.Error on the first statement): the body raises before it
\* changed anything.
Upgrade(f, pr, im, aux, seed, store_ok) ==
    IF ~store_ok THEN Raised(pr, im, aux)
    ELSE CASE f.body = "001" -> Upgrade001(pr, im, aux)
           [] f.body = "002" -> Upgrade002(pr, im, aux, seed)
           [] f.body = "003" -> Upgrade003(pr, im, aux)
           [] f.body = "004" -> Upgrade004(pr, im, aux)
           [] f.body = "005" -> Upgrade005(pr, im, aux)

----------------------------------------------------------------------------
(* The stores an earlier deployment may have left *)

RowA  == StoredRow(1, "O1", "2025-08-20 10:00:00", "I1", 6)
RowA2 == StoredRow(2, "O1", "2025-08-20 10:00:00", "I2", 10)
RowB  == StoredRow(2, "O1", "2025-08-20 10:05:00", "I1", 6)

AuxOf(v) ==
    (IF v >= 4 THEN {"wip_details", "zp02_records", "zp58_records"} ELSE {})
    \cup (IF v >= 5 THEN {"storage_locations", "zs65_records"} ELSE {})

\* A store at version v holds what units 1..v create; before unit 003 the
\* table has no UNIQUE constraint and may hold two rows with the same key.
StoreAt(v, rows, master) ==
    [schema_version     |-> [exists |-> TRUE, version |-> v],
     production_records |-> [exists |-> TRUE, unique |-> v >= 3, rows |-> rows],
     item_master        |-> IF v >= 2 THEN [exists |-> TRUE, rows |-> master] ELSE NoMaster,
     aux_tables         |-> AuxOf(v)]

InitialStores ==
    \* a new, empty database file
    { [schema_version |-> [exists |-> FALSE, version |-> 0],
       production_records |-> NoTable, item_master |-> NoMaster, aux_tables |-> {}] }
    \* a database built by create_tables alone
    \cup { [schema_version |-> [exists |-> FALSE, version |-> 0],
            production_records |-> [exists |-> TRUE, unique |-> FALSE, rows |-> rows],
            item_master |-> NoMaster, aux_tables |-> {}] : rows \in {<<>>, <<RowA>>} }
    \cup { StoreAt(1, rows, {}) : rows \in {<<>>, <<RowA, RowA2>>} }
    \cup { StoreAt(2, rows, {}) : rows \in {<<>>, <<RowA, RowB>>} }
    \cup { StoreAt(v, <<>>, {}) : v \in {3, 5} }
    \cup { StoreAt(v, <<RowA>>, {MasterRow("I1", 3)}) : v \in {3, 5} }

----------------------------------------------------------------------------
(* The ingestion pipeline *)

\* A data row of the batch file: the MRP controller code as its characters,
\* the order number, the input timestamp as written, the item code (NULL for
\* an empty cell) and the actual quantity.
RawRow(m, o, t, c, q) ==
    [mrp |-> m, order_number |-> o, input_datetime |-> t, item_code |-> c,
     actual_quantity |-> q]

PC1 == <<"P", "C", "1">>
MX1 == <<"M", "X", "1">>

\* The columns of the header the pipeline looks for by name.
AllColumns == {"mrp", "item_code"}

\* What is found at the data path.  kind: "missing" (no file), "unreadable"
\* (the open or the parse fails), "empty" (a file of zero bytes) or "data" (a
\* header line and the data rows); columns: the columns the header names.  A
\* row of a file without a column carries no value for it.
BatchFile(k, rows, cols) ==
    [found |-> k # "missing", kind |-> k, rows |-> rows, columns |-> cols]

T1000 == "2025/08/20 10:00"
T1005 == "2025/08/20 10:05"

\* The batch files the service meets from hour to hour: no file, a header
\* alone, one row, the same order and instant twice with different items, a
\* later row of the order with a row that lacks the item code, rows that are
\* out of scope or carry an unreadable timestamp, and a longer file that
\* mixes them.
ServiceFiles ==
    LET files ==
        { BatchFile("missing", <<>>, AllColumns),
          BatchFile("data", <<>>, AllColumns),
          BatchFile("data", <<RawRow(PC1, "O1", T1000, "I1", 2)>>, AllColumns),
          BatchFile("data", <<RawRow(PC1, "O1", T1000, "I1", 2),
                              RawRow(PC1, "O1", T1000, "I2", 2)>>, AllColumns),
          BatchFile("data", <<RawRow(PC1, "O1", T1005, "I1", 2),
                              RawRow(PC1, "O2", T1005, NULL, 2)>>, AllColumns),
          BatchFile("data", <<RawRow(MX1, "O2", T1005, "I1", 2),
                              RawRow(PC1, "O2", "2025-08-20 10:05", "I1", 2)>>, AllColumns),
          BatchFile("data", <<RawRow(PC1, "O2", T1000, "I1", 2),
                              RawRow(MX1, "O2", T1005, "I1", 2),
                              RawRow(PC1, "O2", T1005, NULL, 2)>>, AllColumns) }
    IN  { f \in files : Len(f.rows) <= MaxBatch }

\* Faulty variant of the read: an empty file is an error like any other.
ReadCsvWithoutEmptyCase(file) ==
    IF file.kind = "data"
    THEN [raised |-> FALSE, error |-> NULL, rows |-> file.rows]
    ELSE [raised |-> TRUE, error |-> "read", rows |-> <<>>]

\* pd.read_csv and the except clauses of _load_production_dataframe:
\* FileNotFoundError and any other error are raised again, EmptyDataError
\* yields an empty DataFrame.
ReadCsv(file) ==
    CASE file.kind = "missing"    -> [raised |-> TRUE, error |-> "FileNotFoundError", rows |-> <<>>]
      [] file.kind = "unreadable" -> [raised |-> TRUE, error |-> "OSError", rows |-> <<>>]
      [] file.kind = "empty"      -> [raised |-> FALSE, error |-> NULL, rows |-> <<>>]
      [] file.kind = "data"       -> [raised |-> FALSE, error |-> NULL, rows |-> file.rows]

\* Faulty variant of the filter: na=True, a row without a controller code
\* passes.
StartsWithPCOrMissing(m) == m = <<>> \/ (Len(m) >= 2 /\ m[1] = "P" /\ m[2] = "C")

\* df['MRP管理者'].str.startswith('PC', na=False)
StartsWithPC(m) == Len(m) >= 2 /\ m[1] = "P" /\ m[2] = "C"

\* pd.to_datetime(format='%Y/%m/%d %H:%M', errors='coerce') followed by
\* strftime('%Y-%m-%d %H:%M:%S'): the stored text of the instant, or NaT.
ParseInputDatetime(t) ==
    CASE t = "2025/08/20 10:00" -> "2025-08-20 10:00:00"
      [] t = "2025/08/20 10:05" -> "2025-08-20 10:05:00"
      [] OTHER -> "NaT"

\* Faulty variant of the load: without dropna the rows whose timestamp did
\* not parse stay in the DataFrame.
LoadWithoutDropna(file) ==
    LET InScope(r) == "mrp" \notin file.columns \/ StartsWithPC(r.mrp)
        kept       == SelectSeq(ReadCsv(file).rows, InScope)
    IN  [ i \in 1..Len(kept) |->
            [kept[i] EXCEPT !.input_datetime = ParseInputDatetime(@)] ]

\* _load_production_dataframe: the prefix filter (skipped when the header
\* does not name the controller column), then the timestamp parse with
\* dropna.
LoadProductionDataframe(file) ==
    LET InScope(r) == "mrp" \notin file.columns \/ StartsWithPC(r.mrp)
        Parsed(r)  == ParseInputDatetime(r.input_datetime) # "NaT"
        kept       == SelectSeq(SelectSeq(ReadCsv(file).rows, InScope), Parsed)
    IN  [ i \in 1..Len(kept) |->
            [kept[i] EXCEPT !.input_datetime = ParseInputDatetime(@)] ]

\* _enrich_data: left join on the item code against the master snapshot and
\* amount = actual quantity x standard cost, 0 where no cost is found.
Amount(r, master) ==
    IF \E e \in master : e.item_code = r.item_code /\ e.standard_cost # <<>>
    THEN r.actual_quantity *
         (CHOOSE e \in master : e.item_code = r.item_code).standard_cost[1]
    ELSE 0

\* Faulty variant of the join: how='inner', a row whose item code the master
\* does not hold leaves the batch.
EnrichDataInnerJoin(df, master) ==
    LET Matched(r) == master = {} \/ \E e \in master : e.item_code = r.item_code
        kept == SelectSeq(df, Matched)
    IN  [ i \in 1..Len(kept) |->
            [mrp |-> kept[i].mrp, order_number |-> kept[i].order_number,
             input_datetime |-> kept[i].input_datetime, item_code |-> kept[i].item_code,
             actual_quantity |-> kept[i].actual_quantity,
             amount |-> Amount(kept[i], master)] ]

EnrichData(df, master) ==
    [ i \in 1..Len(df) |->
        [mrp |-> df[i].mrp, order_number |-> df[i].order_number,
         input_datetime |-> df[i].input_datetime, item_code |-> df[i].item_code,
         actual_quantity |-> df[i].actual_quantity, amount |-> Amount(df[i], master)] ]

\* Faulty variant of the validation: no field is mandatory.
IsValidAlways(r) == TRUE

\* ProductionRecord(**record_dict): item code, MRP controller and input
\* timestamp are mandatory fields.
IsValid(r) == r.item_code # NULL /\ r.mrp # <<>> /\ r.input_datetime # "NaT"

\* _validate_and_transform_data: the records the model accepts.
ValidRecords(df)   == SelectSeq(df, IsValid)

\* Faulty variant of the except clause: only the records without an item
\* code are kept as invalid, a record rejected for another field is lost.
InvalidRecordsByItemOnly(df) ==
    LET Invalid(r) == r.item_code = NULL IN SelectSeq(df, Invalid)

\* _validate_and_transform_data: every record that raises ValidationError.
InvalidRecords(df) == LET Invalid(r) == ~IsValid(r) IN SelectSeq(df, Invalid)

NextId(rows) ==
    IF rows = <<>> THEN 1
    ELSE 1 + (CHOOSE m \in { rows[i].id : i \in 1..Len(rows) } :
                 \A i \in 1..Len(rows) : rows[i].id <= m)

\* Faulty variant of the insert: the statement does not consult the
\* constraint and every record becomes a row.
InsertWithoutConstraint(pr, r) ==
    [pr EXCEPT !.rows = Append(@, StoredRow(NextId(pr.rows), r.order_number,
                                            r.input_datetime, r.item_code, r.amount))]

\* Faulty variant of the insert: INSERT OR REPLACE, the row that holds the
\* key is deleted and the record takes its place.
InsertOrReplace(pr, r) ==
    LET Other(x) == ~(pr.unique /\ Key(x) = Key(r))
    IN  [pr EXCEPT !.rows = Append(SelectSeq(@, Other),
                                   StoredRow(NextId(pr.rows), r.order_number,
                                             r.input_datetime, r.item_code, r.amount))]

\* INSERT OR IGNORE of one record: a row whose key is already in a table with
\* the UNIQUE constraint is ignored.
InsertOrIgnore(pr, r) ==
    IF pr.unique /\ Key(r) \in KeysOf(pr.rows)
    THEN pr
    ELSE [pr EXCEPT !.rows = Append(@, StoredRow(NextId(pr.rows), r.order_number,
                                                 r.input_datetime, r.item_code, r.amount))]

RECURSIVE ExecuteMany(_, _)
ExecuteMany(pr, records) ==
    IF records = <<>> THEN pr
    ELSE ExecuteMany(InsertOrIgnore(pr, Head(records)), Tail(records))

\* insert_production_records: executemany and commit; a missing table or a
\* store error (store_ok = FALSE: the database is locked, the disk is full)
\* raises before a row is written.
InsertProductionRecords(pr, records, store_ok) ==
    IF ~pr.exists \/ ~store_ok
    THEN [raised |-> TRUE, table |-> pr]
    ELSE [raised |-> FALSE, table |-> ExecuteMany(pr, records)]

\* The summary of the except clause: a status flag and the error, no counts.
FailedSummary(e) == [status |-> "failed", error |-> e]
CountSummary(t, s, f) == [status |-> "ok", total_rows |-> t, successful_inserts |-> s,
                          failed_rows |-> f]

\* Faulty variant of the except clause of process_file_and_load_to_db: a
\* narrower clause lets the error of the store pass.
CatchesOnlyFileErrors(e) == e # "sqlite3.OperationalError"

\* except Exception as e: every error raised inside the try block is caught.
Catches(e) == TRUE

\* process_file_and_load_to_db on the table pr with the master snapshot
\* master: whether an error left the call, the table afterwards, the records
\* handed to the insert and the summary returned.
ProcessFileAndLoadToDb(pr, file, master, store_ok) ==
    LET read     == ReadCsv(file)
        prod_df  == LoadProductionDataframe(file)
        enriched == EnrichData(prod_df, master)
        valid    == ValidRecords(enriched)
        invalid  == InvalidRecords(enriched)
        ins      == InsertProductionRecords(pr, valid, store_ok)
        Failed(e, batch) ==
            [raised |-> ~Catches(e), table |-> pr, batch |-> batch,
             summary |-> FailedSummary(e)]
    IN  IF read.raised
        THEN Failed(read.error, <<>>)
        ELSE IF prod_df = <<>>
        THEN [raised |-> FALSE, table |-> pr, batch |-> <<>>,
              summary |-> CountSummary(0, 0, 0)]
        ELSE IF "item_code" \notin file.columns /\ master # {}
        THEN Failed("KeyError", <<>>)
        ELSE IF valid = <<>>
        THEN [raised |-> FALSE, table |-> pr, batch |-> <<>>,
              summary |-> CountSummary(Len(enriched), 0, Len(invalid))]
        ELSE IF ins.raised
        THEN Failed("sqlite3.OperationalError", valid)
        ELSE [raised |-> FALSE, table |-> ins.table, batch |-> valid,
              summary |-> CountSummary(Len(enriched), Len(valid), Len(invalid))]

\* DataProcessor._load_item_master_from_db: the snapshot a DataProcessor holds.
LoadItemMasterFromDb(im) == IF im.exists THEN im.rows ELSE {}

\* master_df['item_code'].str.strip(): surrounding blanks are not part of a code.
Strip(c) == CASE c = "I1 " -> "I1" [] c = " I2" -> "I2" [] OTHER -> c

StripCodes(rows) == [ i \in 1..Len(rows) |-> [rows[i] EXCEPT !.item_code = Strip(@)] ]

\* pd.read_csv(settings.ITEM_MASTER_PATH), the rename and the strip.  A
\* header without the item code column skips the strip and makes
\* drop_duplicates(subset=['item_code']) raise KeyError; a header without the
\* standard cost column is read as it is.
ReadMasterCsv(file) ==
    IF file.found /\ "item_code" \in file.columns
    THEN [raised |-> FALSE, rows |-> StripCodes(file.rows)]
    ELSE [raised |-> TRUE, rows |-> <<>>]

\* Faulty variant of the deduplication: keep='first'.
KeepFirst(rows) ==
    { rows[i] : i \in { k \in 1..Len(rows) :
                          \A j \in 1..(k - 1) : rows[j].item_code # rows[k].item_code } }

\* drop_duplicates(subset=['item_code'], keep='last')
KeepLast(rows) ==
    { rows[i] : i \in { k \in 1..Len(rows) :
                          \A j \in (k + 1)..Len(rows) : rows[j].item_code # rows[k].item_code } }

\* sync_master_from_csv: a missing file or a missing table is logged and
\* changes nothing; otherwise the table is replaced by the file's content.
SyncMasterFromCsv(im, file) ==
    IF ReadMasterCsv(file).raised \/ ~im.exists THEN im
    ELSE [im EXCEPT !.rows = KeepLast(ReadMasterCsv(file).rows)]

----------------------------------------------------------------------------
(* main() and apply_migrations *)

\* The directory the process finds: the repository's, or for a store that
\* stands before unit 004, the one with the copied unit.
DirectoriesFor(s) ==
    IF s.schema_version.exists /\ s.schema_version.version = 3
    THEN Directories
    ELSE { RepoFiles }

NoStore ==
    [schema_version |-> [exists |-> FALSE, version |-> 0],
     production_records |-> NoTable, item_master |-> NoMaster, aux_tables |-> {}]

\* The history of one apply_migrations call: how it ended, whether the
\* version table existed, the version it started from, the units whose
\* body it invoked, the unit whose body raised, whether the store itself
\* failed, the store as the call found it, and the master file unit 002
\* found when the call executed it.
NoCall ==
    [status |-> "none", had_table |-> FALSE, start_version |-> 0,
     executed |-> <<>>, failed |-> <<>>, store_error |-> FALSE, before |-> NoStore,
     seed |-> <<>>]

Store ==
    [schema_version |-> schema_version, production_records |-> production_records,
     item_master |-> item_master, aux_tables |-> aux_tables]

\* A value of a field before validation: a string as the sequence of its
\* characters, None, or a number.
Str(s) == [type |-> "str", chars |-> s, n |-> 0]
None   == [type |-> "none", chars |-> <<>>, n |-> 0]
Num(k) == [type |-> "num", chars |-> <<>>, n |-> k]

\* No validator has been applied.
NoResult == [fn |-> "none", value |-> None]

\* No run has just ended; after_error: the run before the sleep ended in an
\* error.
NoRun == [done |-> FALSE, after_error |-> FALSE]

\* No sync call has ended, and the connection has no open transaction.
NoSync == [done |-> FALSE, outcome |-> "none", file |-> NoMasterFile,
           before |-> NoMaster, rows |-> {}]
NoPending == [open |-> FALSE, rows |-> {}]

Init ==
    /\ \E s \in InitialStores :
          /\ migrations_dir \in DirectoriesFor(s)
          /\ schema_version = s.schema_version
          /\ production_records = s.production_records
          /\ item_master = s.item_master
          /\ aux_tables = s.aux_tables
    /\ pc = "not_started"
    /\ mode = "service"
    /\ current_version = 0
    /\ migration_files = <<>>
    /\ idx = 0
    /\ starts = 0
    /\ runs = 0
    /\ call = NoCall
    /\ applied = {}
    /\ last_run = NoRun
    /\ exit_code = <<>>
    /\ snapshot = {}
    /\ pending = NoPending
    /\ last_sync = NoSync
    /\ arg = None
    /\ result = NoResult

\* if current_version >= latest_script_version: return
UpToDate(current, latest) == current >= latest

\* if script_version > current_version: apply the unit
ShouldApply(script_version, current) == script_version > current

\* Faulty variant of the except clause: the failure is logged and the loop
\* goes on to the next file.
Swallows == FALSE

\* except Exception as e: logger.critical(...); raise
ReRaises == TRUE

\* Faulty variant of main: the failure is logged and main carries on.
CarriesOn == "migrated"

\* main: an exception out of apply_migrations reaches the except clause of
\* main, is logged, the connection is closed and main returns.
OnMigrationFailure == "exited"

\* main returns after its except and finally clauses and the interpreter
\* ends: the exit status of a script that ran to its end.
ExitStatusOfMain == <<0>>

\* sys.exit(0) after the master sync.
SysExit == <<0>>

\* main: parse the arguments, open the connection, call apply_migrations.
MainStart(m) ==
    /\ pc \in {"not_started", "exited", "killed"}
    /\ starts < MaxStarts
    /\ starts' = starts + 1
    /\ mode' = m
    /\ pc' = "apply_migrations"
    /\ exit_code' = <<>>
    /\ call' = NoCall
    /\ current_version' = 0
    /\ migration_files' = <<>>
    /\ idx' = 0
    /\ last_sync' = NoSync
    /\ UNCHANGED <<migrations_dir, snapshot, pending, fnVars, storeVars, runs, applied, last_run>>

\* apply_migrations up to its for loop: initialize_schema_version,
\* get_schema_version, the sorted glob and the two early returns.
ApplyMigrationsBegin ==
    /\ pc = "apply_migrations"
    /\ LET sv      == InitializeSchemaVersion(schema_version)
           current == GetSchemaVersion(sv)
           files   == SortedFiles(migrations_dir)
           return  == files = <<>> \/ UpToDate(current, LatestScriptVersion(files))
       IN  /\ schema_version' = sv
           /\ current_version' = current
           /\ migration_files' = files
           /\ idx' = 1
           /\ pc' = IF return THEN "migrated" ELSE "for_loop"
           /\ call' = [status |-> IF return THEN "returned" ELSE "running",
                       had_table |-> schema_version.exists,
                       start_version |-> current,
                       executed |-> <<>>, failed |-> <<>>,
                       store_error |-> FALSE, before |-> Store, seed |-> <<>>]
    /\ UNCHANGED <<migrations_dir, apiVars, fnVars, exit_code, production_records, item_master, aux_tables,
                   mode, starts, runs, applied, last_run>>

\* for migration_file in migration_files: a file that is not newer than
\* current_version is passed over.
ForSkip ==
    /\ pc = "for_loop"
    /\ idx <= Len(migration_files)
    /\ ~ShouldApply(migration_files[idx].prefix, current_version)
    /\ idx' = idx + 1
    /\ UNCHANGED <<migrations_dir, apiVars, fnVars, exit_code, storeVars, pc, mode, current_version, migration_files,
                   starts, runs, call, applied, last_run>>

\* The master file a unit found: only 002 looks for one.
Found(f, seed, before) == IF f.body = "002" THEN <<seed>> ELSE before

\* The try block up to migration_module.upgrade(conn): the body commits, or
\* it raises and apply_migrations re-raises to main.
RunUpgrade ==
    /\ pc = "for_loop"
    /\ idx <= Len(migration_files)
    /\ ShouldApply(migration_files[idx].prefix, current_version)
    /\ \E seed \in MasterFiles, store_ok \in BOOLEAN :
         LET f == migration_files[idx]
             r == Upgrade(f, production_records, item_master, aux_tables, seed, store_ok)
         IN  /\ production_records' = r.production_records
             /\ item_master' = r.item_master
             /\ aux_tables' = r.aux_tables
             /\ IF r.raised /\ ReRaises
                THEN /\ pc' = OnMigrationFailure
                     /\ idx' = idx
                     /\ call' = [call EXCEPT !.status = "raised",
                                             !.executed = Append(@, f),
                                             !.failed = <<f>>,
                                             !.store_error = ~store_ok,
                                             !.seed = Found(f, seed, @)]
                     /\ applied' = applied
                ELSE IF r.raised
                THEN /\ pc' = "for_loop"
                     /\ idx' = idx + 1
                     /\ call' = [call EXCEPT !.executed = Append(@, f),
                                             !.failed = <<f>>,
                                             !.store_error = ~store_ok,
                                             !.seed = Found(f, seed, @)]
                     /\ applied' = applied
                ELSE /\ idx' = idx /\ pc' = "update_version"
                     /\ call' = [call EXCEPT !.executed = Append(@, f),
                                             !.seed = Found(f, seed, @)]
                     /\ applied' = applied \cup {f}
    /\ exit_code' = IF pc' = "exited" THEN ExitStatusOfMain ELSE exit_code
    /\ UNCHANGED <<migrations_dir, apiVars, fnVars, schema_version, mode, current_version, migration_files,
                   starts, runs, last_run>>

\* _update_schema_version(conn, script_version): UPDATE and commit, or a
\* store error that apply_migrations re-raises to main.
UpdateSchemaVersion ==
    /\ pc = "update_version"
    /\ \E store_ok \in BOOLEAN :
         IF store_ok
         THEN /\ schema_version' = [schema_version EXCEPT
                                      !.version = migration_files[idx].prefix]
              /\ idx' = idx + 1
              /\ pc' = "for_loop"
              /\ call' = call
         ELSE /\ pc' = OnMigrationFailure
              /\ call' = [call EXCEPT !.status = "raised", !.store_error = TRUE]
              /\ UNCHANGED <<schema_version, idx>>
    /\ exit_code' = IF pc' = "exited" THEN ExitStatusOfMain ELSE exit_code
    /\ UNCHANGED <<migrations_dir, apiVars, fnVars, production_records, item_master, aux_tables, mode,
                   current_version, migration_files, starts, runs, applied, last_run>>

\* The for loop is exhausted: apply_migrations returns to main.
ForEnd ==
    /\ pc = "for_loop"
    /\ idx > Len(migration_files)
    /\ pc' = "migrated"
    /\ call' = [call EXCEPT !.status = "returned"]
    /\ UNCHANGED <<migrations_dir, apiVars, fnVars, exit_code, storeVars, mode, migVars, starts, runs, applied, last_run>>

\* The process is killed (power loss, SIGKILL): what is committed stays.
Kill ==
    /\ pc \in {"apply_migrations", "for_loop", "update_version", "migrated",
               "service", "sleeping"}
    /\ pc' = "killed"
    /\ call' = IF call.status = "running" THEN [call EXCEPT !.status = "killed"] ELSE call
    /\ last_run' = NoRun
    /\ UNCHANGED <<migrations_dir, apiVars, fnVars, exit_code, storeVars, mode, migVars, starts, runs, applied>>

\* main after apply_migrations returned: DataProcessor(conn), then the
\* one-shot master sync or the service loop.
MainReady ==
    /\ pc = "migrated"
    /\ pc' = IF mode = "sync" THEN "sync" ELSE "service"
    /\ call' = [NoCall EXCEPT !.status = call.status]
    /\ current_version' = 0
    /\ migration_files' = <<>>
    /\ idx' = 0
    /\ UNCHANGED <<migrations_dir, apiVars, fnVars, exit_code, storeVars, mode, starts, runs, applied, last_run>>

\* data_processor.sync_master_from_csv() and sys.exit(0): whatever the call
\* logged, main reports the sync as completed and exits with status 0.
SyncMaster ==
    /\ pc = "sync"
    /\ \E file \in MasterFiles \cup FilesLackingColumn :
         /\ item_master' = SyncMasterFromCsv(item_master, file)
         /\ last_sync' = [done |-> TRUE,
                          outcome |-> IF ReadMasterCsv(file).raised \/ ~item_master.exists
                                      THEN "not_started" ELSE "ok",
                          file |-> file, before |-> item_master,
                          rows |-> item_master'.rows]
    /\ pc' = "exited"
    /\ exit_code' = SysExit
    /\ UNCHANGED <<migrations_dir, snapshot, pending, fnVars, schema_version, production_records, aux_tables, mode,
                   migVars, starts, runs, call, applied, last_run>>

\* What may go wrong in a run: nothing, the store at the insert, or the
\* analytics and report steps that follow a run with inserts.
RunFaults == {"none", "store", "report"}

\* Faulty variant of run_pipeline: without the except clause an error of the
\* run reaches the except clause of main.
RunErrorEndsMain == "exited"

\* run_pipeline: except Exception as e: logger.error(...), and the function
\* returns to the loop.
OnRunError == "sleeping"

\* run_pipeline(conn): a new DataProcessor (with the master as the store
\* holds it now) processes the batch file found at the data path; when rows
\* were inserted the analytics and the reports follow.
RunPipeline ==
    /\ pc = "service"
    /\ runs < MaxRuns
    /\ \E file \in ServiceFiles, fault \in RunFaults :
         LET master == LoadItemMasterFromDb(item_master)
             r      == ProcessFileAndLoadToDb(production_records, file, master,
                                              fault # "store")
             error  == \/ r.raised
                       \/ /\ fault = "report"
                          /\ r.summary.status = "ok"
                          /\ r.summary.successful_inserts > 0
         IN  /\ production_records' = r.table
             /\ last_run' = [done |-> TRUE, file |-> file, master |-> master,
                             before |-> production_records,
                             batch |-> r.batch, summary |-> r.summary,
                             store_failed |-> fault = "store" /\ r.batch # <<>>,
                             error |-> error, after_error |-> last_run.after_error]
             /\ pc' = IF error THEN OnRunError ELSE "sleeping"
             /\ exit_code' = IF pc' = "exited" THEN ExitStatusOfMain ELSE exit_code
    /\ runs' = runs + 1
    /\ UNCHANGED <<migrations_dir, apiVars, fnVars, schema_version, item_master, aux_tables, mode,
                   migVars, starts, call, applied>>

\* time.sleep(3600), and the loop goes round.
Sleep ==
    /\ pc = "sleeping"
    /\ pc' = "service"
    /\ last_run' = [NoRun EXCEPT !.after_error =
                        last_run.error \/ last_run.summary.status = "failed"]
    /\ UNCHANGED <<migrations_dir, apiVars, fnVars, exit_code, storeVars, mode, migVars, starts, runs, call, applied>>

Next ==
    \/ \E m \in {"service", "sync"} : MainStart(m)
    \/ ApplyMigrationsBegin
    \/ ForSkip
    \/ RunUpgrade
    \/ UpdateSchemaVersion
    \/ ForEnd
    \/ MainReady
    \/ SyncMaster
    \/ RunPipeline
    \/ Sleep
    \/ Kill

Spec == Init /\ [][Next]_vars

----------------------------------------------------------------------------
(* A DataProcessor used directly on one connection, as the tests and the    *)
(* one-shot sync use it: calls of process_file_and_load_to_db and of        *)
(* sync_master_from_csv in any order on a store that is already built.      *)

mainVars == <<migrations_dir, schema_version, aux_tables, mode, current_version,
              migration_files, idx, starts, call, applied, exit_code, arg, result>>

NoCode == <<>>

\* What may be found at the data path of a processor: the files the service
\* meets, a file of zero bytes, a file that cannot be read, a row with an
\* empty controller cell, files whose header lacks the controller or the
\* item code column, items with a cost, without a cost and unknown to the
\* master, a file without a valid row, and rows whose timestamp is not in
\* the pattern or is missing.
ProcessorFiles ==
    LET files ==
        { BatchFile("empty", <<>>, AllColumns),
          BatchFile("unreadable", <<>>, AllColumns),
          BatchFile("data", <<RawRow(NoCode, "O3", T1000, "I1", 2),
                              RawRow(PC1, "O1", T1000, "I1", 2)>>, AllColumns),
          BatchFile("data", <<RawRow(NoCode, "O3", T1000, "I1", 2)>>, {"item_code"}),
          BatchFile("data", <<RawRow(PC1, "O1", T1000, NULL, 2)>>, {"mrp"}),
          BatchFile("data", <<RawRow(PC1, "O3", T1000, "I1", 2),
                              RawRow(PC1, "O3", T1005, "I2", 4)>>, AllColumns),
          BatchFile("data", <<RawRow(PC1, "O3", T1000, "I9", 2)>>, AllColumns),
          BatchFile("data", <<RawRow(PC1, "O2", T1005, NULL, 2)>>, AllColumns),
          BatchFile("data", <<RawRow(PC1, "O4", T1000, "I1", 2),
                              RawRow(PC1, "O4", "2025-08-20 10:05", "I1", 2)>>, AllColumns),
          BatchFile("data", <<RawRow(PC1, "O4", NULL, "I1", 2)>>, AllColumns),
          BatchFile("data", <<RawRow(NoCode, "O3", T1000, "I1", 2),
                              RawRow(PC1, "O1", T1005, "I2", 2),
                              RawRow(PC1, "O2", "2025-08-20 10:05", "I1", 2)>>, AllColumns) }
    IN  ServiceFiles \cup { f \in files : Len(f.rows) <= MaxBatch }

\* What may be found at the master path: the files of MasterFiles, a file
\* that changes a cost, drops a code and adds one without a cost, a file
\* whose codes differ only by surrounding blanks, and the files that lack a
\* column.
SyncFiles ==
    MasterFiles
    \cup FilesLackingColumn
    \cup { MasterFile(<<MasterRow("I1", 7), NullCostRow("I3")>>, MasterColumns),
           MasterFile(<<MasterRow("I1", 3), MasterRow("I1 ", 7),
                        MasterRow(" I2", 5)>>, MasterColumns) }

\* The stores a processor is opened on: migrated to the latest version, or
\* built by create_tables alone as the unit tests build it.
ProcessorStores ==
    { StoreAt(5, <<>>, {}),
      StoreAt(5, <<RowA>>, {MasterRow("I1", 3), NullCostRow("I2")}),
      [schema_version |-> [exists |-> FALSE, version |-> 0],
       production_records |-> [exists |-> TRUE, unique |-> FALSE, rows |-> <<>>],
       item_master |-> NoMaster, aux_tables |-> {}] }

\* DataProcessor(conn) on a connection just opened.
ProcessorInit ==
    /\ \E s \in ProcessorStores :
          /\ schema_version = s.schema_version
          /\ production_records = s.production_records
          /\ item_master = s.item_master
          /\ aux_tables = s.aux_tables
    /\ migrations_dir = RepoFiles
    /\ pc = "processor"
    /\ mode = "service"
    /\ current_version = 0
    /\ migration_files = <<>>
    /\ idx = 0
    /\ starts = 1
    /\ runs = 0
    /\ call = NoCall
    /\ applied = {}
    /\ last_run = NoRun
    /\ exit_code = <<>>
    /\ snapshot = LoadItemMasterFromDb(item_master)
    /\ pending = NoPending
    /\ last_sync = NoSync
    /\ arg = None
    /\ result = NoResult

\* item_master as a statement on the connection reads it: the rows of the
\* open transaction when there is one, the committed rows otherwise.
Visible(im, p) == IF p.open THEN [im EXCEPT !.rows = p.rows] ELSE im

\* conn.commit(): what the open transaction holds becomes the table.
Commit(im, p) == Visible(im, p)

\* process_file_and_load_to_db() on the processor.  The commit that ends a
\* successful insert commits whatever the connection has pending.
ProcessFile ==
    /\ pc = "processor"
    /\ runs < MaxRuns
    /\ \E file \in ProcessorFiles, store_ok \in BOOLEAN :
         LET r == ProcessFileAndLoadToDb(production_records, file, snapshot, store_ok)
             committed == r.summary.status = "ok" /\ r.batch # <<>>
         IN  /\ production_records' = r.table
             /\ item_master' = IF committed THEN Commit(item_master, pending)
                                ELSE item_master
             /\ pending' = IF committed THEN NoPending ELSE pending
             /\ last_run' = [done |-> TRUE, file |-> file, master |-> snapshot,
                             before |-> production_records,
                             batch |-> r.batch, summary |-> r.summary,
                             store_failed |-> ~store_ok /\ r.batch # <<>>,
                             error |-> r.raised, after_error |-> FALSE]
    /\ runs' = runs + 1
    /\ UNCHANGED <<mainVars, pc, snapshot, last_sync>>

\* sync_master_from_csv() up to cursor.execute("DELETE FROM item_master;"):
\* the file is read, stripped and deduplicated, and the DELETE opens a
\* transaction in which the table is empty.  A missing file or a missing
\* table ends the call in its except clause before anything is deleted.
SyncBegin ==
    /\ pc = "processor"
    /\ runs < MaxRuns
    /\ \E file \in SyncFiles :
         LET read == ReadMasterCsv(file)
         IN  IF read.raised \/ ~item_master.exists
             THEN /\ last_sync' = [done |-> TRUE, outcome |-> "not_started",
                                   file |-> file, before |-> Visible(item_master, pending),
                                   rows |-> {}]
                  /\ UNCHANGED <<pc, pending>>
             ELSE /\ last_sync' = [done |-> FALSE, outcome |-> "deleted",
                                   file |-> file, before |-> Visible(item_master, pending),
                                   rows |-> KeepLast(read.rows)]
                  /\ pending' = [open |-> TRUE, rows |-> {}]
                  /\ pc' = "sync_deleted"
    /\ last_run' = NoRun
    /\ runs' = runs + 1
    /\ UNCHANGED <<mainVars, storeVars, snapshot>>

\* Faulty variant of the failed insert: the statements of the transaction
\* stay pending on the connection.
FailedToSqlWithoutRollback(p) == p

\* master_df.to_sql(...) that fails: pandas rolls the transaction back before
\* the error reaches the except clause of the sync.
FailedToSql(p) == NoPending

\* master_df.to_sql('item_master', conn, if_exists='append') and
\* self.db_conn.commit(): the transaction holds the rows of the file and is
\* committed; or the insert fails.
ToSqlAndCommit(im, p, rows, ok) ==
    IF ok
    THEN [raised |-> FALSE, item_master |-> Commit(im, [p EXCEPT !.rows = rows]),
          pending |-> NoPending]
    ELSE [raised |-> TRUE, item_master |-> im, pending |-> FailedToSql(p)]

\* sync_master_from_csv() from the insert on: on success the snapshot is
\* loaded again; on failure the except clause logs the error.
SyncInsert ==
    /\ pc = "sync_deleted"
    /\ \E ok \in BOOLEAN :
         LET r == ToSqlAndCommit(item_master, pending, last_sync.rows, ok)
         IN  /\ item_master' = r.item_master
             /\ pending' = r.pending
             /\ snapshot' = IF r.raised THEN snapshot
                             ELSE LoadItemMasterFromDb(r.item_master)
             /\ last_sync' = [last_sync EXCEPT !.done = TRUE,
                                               !.outcome = IF r.raised THEN "failed" ELSE "ok"]
    /\ pc' = "processor"
    /\ UNCHANGED <<mainVars, production_records, runs, last_run>>

\* The process dies between the DELETE and the commit: the open transaction
\* is lost with the connection, and a new processor is opened on the store.
SyncInterrupt ==
    /\ pc = "sync_deleted"
    /\ pending' = NoPending
    /\ snapshot' = LoadItemMasterFromDb(item_master)
    /\ last_sync' = [last_sync EXCEPT !.done = TRUE, !.outcome = "interrupted"]
    /\ pc' = "processor"
    /\ UNCHANGED <<mainVars, storeVars, runs, last_run>>

ProcessorNext ==
    \/ ProcessFile
    \/ SyncBegin
    \/ SyncInsert
    \/ SyncInterrupt

ProcessorSpec == ProcessorInit /\ [][ProcessorNext]_vars

----------------------------------------------------------------------------
(* The field validators of ProductionRecord, applied to one value *)

\* The characters of the values: a zero, another digit, a blank and a letter.
Chars == {"0", "3", " ", "I"}

Digits == {"0", "1", "2", "3", "4", "5", "6", "7", "8", "9"}

RECURSIVE StringsUpTo(_)
StringsUpTo(n) ==
    IF n = 0 THEN { <<>> }
    ELSE LET shorter == StringsUpTo(n - 1)
         IN  shorter \cup { Append(q, c) : q \in { r \in shorter : Len(r) = n - 1 },
                                          c \in Chars }

\* The values a sales-order number or line cell may hold: a string, None
\* for an empty cell, or a number when the caller passes one.
SapValues == { Str(q) : q \in StringsUpTo(MaxLen) } \cup { None, Num(7) }

\* str.strip(): blanks at both ends are removed.
RECURSIVE LStripBlanks(_)
LStripBlanks(q) ==
    IF q # <<>> /\ Head(q) = " " THEN LStripBlanks(Tail(q)) ELSE q

RECURSIVE RStripBlanks(_)
RStripBlanks(q) ==
    IF q # <<>> /\ q[Len(q)] = " " THEN RStripBlanks(SubSeq(q, 1, Len(q) - 1)) ELSE q

StripBlanks(q) == RStripBlanks(LStripBlanks(q))

\* str.isdigit()
IsDigit(q) == q # <<>> /\ \A i \in 1..Len(q) : q[i] \in Digits

\* str.lstrip('0')
RECURSIVE LStripZeros(_)
LStripZeros(q) ==
    IF q # <<>> /\ Head(q) = "0" THEN LStripZeros(Tail(q)) ELSE q

\* Faulty variant: the digits that remain are returned as they are.
OrNothing(q) == q

\* ... or '0': a string of zeros keeps one digit.
OrZero(q) == IF q = <<>> THEN <<"0">> ELSE q

\* ProductionRecord.clean_sap_numbers
CleanSapNumbers(value) ==
    IF value.type # "str" THEN value
    ELSE LET stripped_val == StripBlanks(value.chars)
         IN  IF stripped_val = <<>> THEN None
             ELSE IF IsDigit(stripped_val) THEN Str(OrZero(LStripZeros(stripped_val)))
             ELSE Str(stripped_val)

\* The values a planned-completion date cell may hold: the compact form,
\* the compact form with a fractional part, dashes, a day the month does not
\* have, a month the year does not have, a value cut short by one digit, a
\* blank inside or behind the digits, blanks only, the empty string, None.
DateValues ==
    { Str(<<"2", "0", "2", "5", "0", "8", "2", "5">>),
      Str(<<"2", "0", "2", "5", "0", "7", "2", "8", ".", "0">>),
      Str(<<"2", "0", "2", "5", "-", "0", "8", "-", "2", "8">>),
      Str(<<"2", "0", "2", "5", "0", "2", "3", "0">>),
      Str(<<"2", "0", "2", "4", "0", "2", "2", "9">>),
      Str(<<"2", "0", "2", "5", "1", "3", "0", "1">>),
      Str(<<"2", "0", "2", "5", "0", "8", "2">>),
      Str(<<"2", "0", "2", "5", "1", "1", "0">>),
      Str(<<"2", "0", "2", "5", "0", "8", " ", "5">>),
      Str(<<"2", "0", "2", "5", "0", "8", "2", "5", " ">>),
      Str(<<"2", "0", "2", "5", "0", "8", "2", "5", "0">>),
      Str(<<".", "5">>),
      Str(<<" ", " ">>),
      Str(<<>>),
      None }

DigitVal(c) ==
    CASE c = "0" -> 0 [] c = "1" -> 1 [] c = "2" -> 2 [] c = "3" -> 3 [] c = "4" -> 4
      [] c = "5" -> 5 [] c = "6" -> 6 [] c = "7" -> 7 [] c = "8" -> 8 [] c = "9" -> 9

\* The number a string of digits denotes.
RECURSIVE NumberOf(_)
NumberOf(q) ==
    IF q = <<>> THEN 0
    ELSE 10 * NumberOf(SubSeq(q, 1, Len(q) - 1)) + DigitVal(q[Len(q)])

\* date_str.split('.')[0]
RECURSIVE BeforePoint(_)
BeforePoint(q) ==
    IF q = <<>> \/ Head(q) = "." THEN <<>> ELSE <<Head(q)>> \o BeforePoint(Tail(q))

\* The length of the text that %d takes at the head of q, 0 when it takes
\* none: 3[0-1] | [1-2]\d | 0[1-9] | [1-9] | ' '[1-9], the first that fits.
DayLength(q) ==
    LET two == Len(q) >= 2 /\ q[1] \in Digits /\ q[2] \in Digits
    IN  IF two /\ q[1] = "3" /\ q[2] \in {"0", "1"} THEN 2
        ELSE IF two /\ q[1] \in {"1", "2"} THEN 2
        ELSE IF two /\ q[1] = "0" /\ q[2] # "0" THEN 2
        ELSE IF q # <<>> /\ q[1] \in Digits \ {"0"} THEN 1
        ELSE IF Len(q) >= 2 /\ q[1] = " " /\ q[2] \in Digits \ {"0"} THEN 2
        ELSE 0

\* The length of the text that %m takes at the head of q so that %d fits
\* behind it, 0 when there is none: 1[0-2] | 0[1-9] | [1-9], the first after
\* which the rest of the pattern fits.
MonthLength(q) ==
    LET two == /\ Len(q) >= 2
               /\ \/ q[1] = "1" /\ q[2] \in {"0", "1", "2"}
                  \/ q[1] = "0" /\ q[2] \in Digits \ {"0"}
        one == q # <<>> /\ q[1] \in Digits \ {"0"}
    IN  IF two /\ DayLength(SubSeq(q, 3, Len(q))) > 0 THEN 2
        ELSE IF one /\ DayLength(SubSeq(q, 2, Len(q))) > 0 THEN 1
        ELSE 0

IsLeap(y) == (y % 4 = 0 /\ y % 100 # 0) \/ y % 400 = 0

DaysIn(y, m) ==
    IF m = 2 THEN (IF IsLeap(y) THEN 29 ELSE 28)
    ELSE IF m \in {4, 6, 9, 11} THEN 30 ELSE 31

NoDate      == [type |-> "none", ymd |-> <<>>]
InvalidDate == [type |-> "invalid", ymd |-> <<>>]
Date(y, m, d) == [type |-> "date", ymd |-> <<y, m, d>>]

\* datetime.datetime.strptime(date_str, '%Y%m%d').date(): the pattern is
\* matched at the head of the string, text left over is an error, and so is
\* a day or a year the calendar does not have.
Strptime(q) ==
    IF ~(Len(q) >= 4 /\ \A i \in 1..4 : q[i] \in Digits) THEN InvalidDate
    ELSE LET rest == SubSeq(q, 5, Len(q))
             ml   == MonthLength(rest)
             dl   == DayLength(SubSeq(rest, ml + 1, Len(rest)))
             y    == NumberOf(SubSeq(q, 1, 4))
             m    == NumberOf(SubSeq(rest, 1, ml))
             dtxt == SubSeq(rest, ml + 1, ml + dl)
             d    == NumberOf(IF dtxt[1] = " " THEN Tail(dtxt) ELSE dtxt)
         IN  IF ml = 0 \/ 4 + ml + dl # Len(q) THEN InvalidDate
             ELSE IF y < 1 \/ d > DaysIn(y, m) THEN InvalidDate
             ELSE Date(y, m, d)

\* ProductionRecord.parse_planned_completion_date; InvalidDate stands for
\* the ValueError that fails the row.
ParsePlannedCompletionDate(value) ==
    IF value.type = "none" \/ StripBlanks(value.chars) = <<>> THEN NoDate
    ELSE Strptime(BeforePoint(value.chars))

\* A test calls the validator on one value.
ValidatorInit ==
    /\ schema_version = StoreAt(5, <<>>, {}).schema_version
    /\ production_records = StoreAt(5, <<>>, {}).production_records
    /\ item_master = StoreAt(5, <<>>, {}).item_master
    /\ aux_tables = StoreAt(5, <<>>, {}).aux_tables
    /\ migrations_dir = RepoFiles
    /\ pc = "validator"
    /\ mode = "service"
    /\ current_version = 0
    /\ migration_files = <<>>
    /\ idx = 0
    /\ starts = 1
    /\ runs = 0
    /\ call = NoCall
    /\ applied = {}
    /\ last_run = NoRun
    /\ exit_code = <<>>
    /\ snapshot = {}
    /\ pending = NoPending
    /\ last_sync = NoSync
    /\ arg \in SapValues \cup DateValues
    /\ result = NoResult

\* ProductionRecord.clean_sap_numbers(arg)
CallCleanSapNumbers ==
    /\ pc = "validator"
    /\ result = NoResult
    /\ arg \in SapValues
    /\ result' = [fn |-> "clean_sap_numbers", value |-> CleanSapNumbers(arg)]
    /\ UNCHANGED <<migrations_dir, storeVars, pc, mode, migVars, starts, runs, call, applied,
                   last_run, exit_code, apiVars, arg>>

\* ProductionRecord.parse_planned_completion_date(arg) on a cell of the
\* batch file, which read_csv(dtype=str) gives as a string or as None.
CallParsePlannedCompletionDate ==
    /\ pc = "validator"
    /\ result = NoResult
    /\ arg.type # "num"
    /\ result' = [fn |-> "parse_planned_completion_date",
                  value |-> ParsePlannedCompletionDate(arg)]
    /\ UNCHANGED <<migrations_dir, storeVars, pc, mode, migVars, starts, runs, call, applied,
                   last_run, exit_code, apiVars, arg>>

ValidatorNext ==
    \/ CallCleanSapNumbers
    \/ CallParsePlannedCompletionDate

ValidatorSpec == ValidatorInit /\ [][ValidatorNext]_vars

----------------------------------------------------------------------------
(* ReportGenerator.generate_weekly_summary *)

\* A date as the week computation sees it: the weekday of the first of its
\* month (Sunday = 0 ... Saturday = 6) and the day of the month.
\* 2025-08-01 and 2025-08-03 (the 1st is a Friday), 2025-07-27 (a Tuesday).
ReportDates == { [first |-> 5, day |-> 1], [first |-> 5, day |-> 3],
                 [first |-> 2, day |-> 27] }

\* report_helpers.get_week_of_month: weeks start on Sunday, and week 1 ends
\* on the first Saturday of the month.
GetWeekOfMonth(d) ==
    LET end_of_first_week_day == 1 + (6 - d.first)
    IN  IF d.day <= end_of_first_week_day THEN 1
        ELSE ((d.day - end_of_first_week_day - 1) \div 7) + 2

\* Controller codes that pass the 'PC' prefix filter, and amounts counted in
\* halves of the currency unit (2 is 1.0, 3 is 1.5): amount is the product
\* of a quantity and a REAL standard cost.
ReportControllers == {"PC1", "PC3", "PC7"}
ReportAmounts == {2, 3}

ReportRecords ==
    [mrp : ReportControllers, date : ReportDates, amount : ReportAmounts]

RECURSIVE FramesUpTo(_)
FramesUpTo(n) ==
    IF n = 0 THEN { <<>> }
    ELSE LET shorter == FramesUpTo(n - 1)
         IN  shorter \cup { Append(q, r) : q \in { f \in shorter : Len(f) = n - 1 },
                                          r \in ReportRecords }

\* processor.final_df of a run with successful inserts: at least one row.
ReportFrames == FramesUpTo(MaxRecords) \ { <<>> }

\* all_pcs = [f'PC{i}' for i in range(1, 7)]
AllPcs == {"PC1", "PC2", "PC3", "PC4", "PC5", "PC6"}

\* groupby(['week_category', 'MRP管理者'])['amount'].sum() and the pivot
\* with fill_value=0: the cell of a week and a controller.
RECURSIVE Cell(_, _, _)
Cell(df, w, c) ==
    IF df = <<>> THEN 0
    ELSE (IF GetWeekOfMonth(Head(df).date) = w /\ Head(df).mrp = c
          THEN Head(df).amount ELSE 0) + Cell(Tail(df), w, c)

\* The sum of a week's cells over a set of columns.
RECURSIVE SumOver(_, _, _)
SumOver(df, w, cs) ==
    IF cs = {} THEN 0
    ELSE LET c == CHOOSE x \in cs : TRUE
         IN  Cell(df, w, c) + SumOver(df, w, cs \ {c})

\* astype(int) on an amount that is not negative: the fraction is cut.
AsTypeInt(h) == h \div 2

\* pivot_df['合計'] = pivot_df[all_pcs].sum(axis=1)
WeekTotal(df, w) == SumOver(df, w, AllPcs)

RECURSIVE TotalRow(_, _)
TotalRow(df, weeks) ==
    IF weeks = {} THEN 0
    ELSE LET w == CHOOSE x \in weeks : TRUE
         IN  WeekTotal(df, w) + TotalRow(df, weeks \ {w})

\* generate_weekly_summary: one row per week with the 合計 column, and the
\* 合計 row with the sums of the columns, every amount converted to int.
GenerateWeeklySummary(df) ==
    LET weeks == { GetWeekOfMonth(df[i].date) : i \in 1..Len(df) }
    IN  [weeks |-> weeks,
         total |-> [ w \in weeks |-> AsTypeInt(WeekTotal(df, w)) ],
         grand_total |-> AsTypeInt(TotalRow(df, weeks))]

\* ReportGenerator(processor.final_df) on the frame of one run.
ReportInit ==
    /\ schema_version = StoreAt(5, <<>>, {}).schema_version
    /\ production_records = StoreAt(5, <<>>, {}).production_records
    /\ item_master = StoreAt(5, <<>>, {}).item_master
    /\ aux_tables = StoreAt(5, <<>>, {}).aux_tables
    /\ migrations_dir = RepoFiles
    /\ pc = "reporter"
    /\ mode = "service"
    /\ current_version = 0
    /\ migration_files = <<>>
    /\ idx = 0
    /\ starts = 1
    /\ runs = 0
    /\ call = NoCall
    /\ applied = {}
    /\ last_run = NoRun
    /\ exit_code = <<>>
    /\ snapshot = {}
    /\ pending = NoPending
    /\ last_sync = NoSync
    /\ arg \in ReportFrames
    /\ result = NoResult

\* reporter.generate_weekly_summary()
CallGenerateWeeklySummary ==
    /\ pc = "reporter"
    /\ result = NoResult
    /\ result' = [fn |-> "generate_weekly_summary", value |-> GenerateWeeklySummary(arg)]
    /\ UNCHANGED <<migrations_dir, storeVars, pc, mode, migVars, starts, runs, call, applied,
                   last_run, exit_code, apiVars, arg>>

ReportNext == CallGenerateWeeklySummary

ReportSpec == ReportInit /\ [][ReportNext]_vars

----------------------------------------------------------------------------
(* Properties *)

\* The highest sequence number the directory declares.
HighestNumber ==
    CHOOSE n \in { f.prefix : f \in migrations_dir } :
        \A f \in migrations_dir : f.prefix <= n

AtLatestVersion == schema_version.exists /\ schema_version.version = HighestNumber

\* The keys of the records a run handed to insert_production_records.
BatchKeys == KeysOf(last_run.batch)

\* The position in the batch of the first record that carries the key of
\* the record at position i.
FirstOccurrence(batch, i) ==
    CHOOSE j \in 1..i :
        /\ Key(batch[j]) = Key(batch[i])
        /\ \A k \in 1..(j - 1) : Key(batch[k]) # Key(batch[i])

\* C1: on a store migrated to the latest schema version, whatever inserts
\* the pipeline runs have made, no two rows of production_records carry the
\* same (order_number, input_datetime).
C1_NoDuplicateKeys ==
    AtLatestVersion => ~HasDuplicateKeys(production_records.rows)

\* A run on a store at the latest version has just inserted a batch in
\* which a key occurs that the table already held, or that occurs twice.
C1_Witness ==
    /\ AtLatestVersion
    /\ last_run.done
    /\ \/ BatchKeys \cap KeysOf(last_run.before.rows) # {}
       \/ HasDuplicateKeys(last_run.batch)
    /\ BatchKeys \ KeysOf(last_run.before.rows) # {}

StoreFailed == last_run.store_failed

\* C3: insert_production_records does not fail on a duplicate key; after
\* it the keys stored are the keys stored before together with the keys of
\* the batch, the rows stored before are unchanged, and for a key that was
\* not stored before exactly one row holds it, with the content of the first
\* record of the batch that carries the key.
C3_InsertOrIgnoreContract ==
    (last_run.done /\ last_run.batch # <<>> /\ ~StoreFailed) =>
        LET before == last_run.before.rows
            after  == production_records.rows
            batch  == last_run.batch
        IN  /\ last_run.summary.status = "ok"
            /\ KeysOf(after) = KeysOf(before) \cup KeysOf(batch)
            /\ Len(after) >= Len(before)
            /\ \A i \in 1..Len(before) : after[i] = before[i]
            /\ \A i \in 1..Len(batch) :
                  Key(batch[i]) \notin KeysOf(before) =>
                      LET first == batch[FirstOccurrence(batch, i)]
                          held  == { n \in 1..Len(after) : Key(after[n]) = Key(batch[i]) }
                      IN  /\ Cardinality(held) = 1
                          /\ \A n \in held :
                                /\ after[n].item_code = first.item_code
                                /\ after[n].amount = first.amount

\* The batch just inserted held a key twice with different content and a
\* key the table already held.
C3_Witness ==
    /\ last_run.done
    /\ \E i, j \in 1..Len(last_run.batch) :
          /\ i < j
          /\ Key(last_run.batch[i]) = Key(last_run.batch[j])
          /\ last_run.batch[i].item_code # last_run.batch[j].item_code
          /\ Key(last_run.batch[i]) \notin KeysOf(last_run.before.rows)
    /\ last_run.before.rows # <<>>

\* The apply_migrations call of this process has ended and main has not yet
\* moved on.
CallEnded ==
    \/ pc = "migrated" /\ call.status = "returned"
    \/ pc = "exited" /\ call.status = "raised"

\* C4: apply_migrations on a store without a version table, when the store
\* itself does not fail, starts from version 0, executes the body of every
\* discovered unit once in ascending order and returns with schema_version at
\* the highest sequence number.
C4_FreshStoreFullyMigrated ==
    (CallEnded /\ ~call.had_table /\ ~call.store_error) =>
        /\ call.status = "returned"
        /\ call.start_version = 0
        /\ call.executed = SortedFiles(migrations_dir)
        /\ AtLatestVersion

\* The version the store holds after the body of the last unit the call
\* executed has failed: the number of the unit executed before it, or the
\* version the call found.
VersionBeforeFailure ==
    IF Len(call.executed) > 1
    THEN call.executed[Len(call.executed) - 1].prefix
    ELSE GetSchemaVersion(call.before.schema_version)

\* C5: when the body of unit k has failed, the failure is raised to main,
\* schema_version holds the number of the last unit that committed before k
\* (or the version the call started from), and the call has executed no unit
\* after k.
C5_FailFast ==
    call.failed # <<>> =>
        /\ call.status = "raised"
        /\ pc = "exited"
        /\ call.executed[Len(call.executed)] = call.failed[1]
        /\ \A i \in 1..Len(call.executed) :
              PathLeq(call.executed[i], call.failed[1])
        /\ GetSchemaVersion(schema_version) = VersionBeforeFailure

\* The body of a unit has failed for a reason of its own after an earlier
\* unit of the same call had committed.
C5_Witness ==
    /\ call.failed # <<>>
    /\ ~call.store_error
    /\ Len(call.executed) > 1
    /\ schema_version.version > call.start_version

\* C6: a call of apply_migrations that finds schema_version at the highest
\* discovered sequence number executes no body and leaves schema_version
\* and every table as it found them.
C6_UpToDateIsNoOp ==
    ( /\ call.status # "none"
      /\ call.before.schema_version.exists
      /\ call.before.schema_version.version = HighestNumber ) =>
        /\ call.status = "returned"
        /\ call.executed = <<>>
        /\ Store = call.before

\* A call on a store at the highest number that holds rows has returned.
C6_Witness ==
    /\ pc = "migrated"
    /\ call.status = "returned"
    /\ call.before.schema_version = [exists |-> TRUE, version |-> HighestNumber]
    /\ production_records.rows # <<>>
    /\ item_master.rows # {}

\* C7: schema_version never decreases, and it changes only in the step that
\* follows the successful return of a unit's body, to the number of that unit.
C7_VersionMonotone ==
    [][ /\ GetSchemaVersion(schema_version') >= GetSchemaVersion(schema_version)
        /\ GetSchemaVersion(schema_version') # GetSchemaVersion(schema_version) =>
              /\ pc = "update_version"
              /\ call.executed # <<>>
              /\ call.executed[Len(call.executed)] \in applied
              /\ call.failed = <<>>
              /\ schema_version'.version = call.executed[Len(call.executed)].prefix
      ]_vars

\* Two units have advanced the version one after the other in one call.
C7_Witness ==
    /\ Len(call.executed) >= 2
    /\ call.failed = <<>>
    /\ pc = "for_loop"
    /\ schema_version.version = call.executed[Len(call.executed)].prefix
    /\ schema_version.version > call.start_version + 1

\* C8: the body of a unit and the advance of schema_version to its number
\* take effect together, so that across kills and errors the body of a unit
\* never commits on a store on which it has committed before.
C8_BodyCommitsOnce ==
    [][ (pc = "for_loop" /\ pc' = "update_version") =>
            migration_files[idx] \notin applied ]_vars

\* Two files of the directory declare the same sequence number.
HasDuplicateNumbers ==
    \E f, g \in migrations_dir : f # g /\ f.prefix = g.prefix

Conflicting(f) == \E g \in migrations_dir : g # f /\ g.prefix = f.prefix

\* C9: when two files declare the same sequence number, apply_migrations
\* fails at startup: it does not return normally and the body of neither
\* conflicting unit is executed.
C9_DuplicateNumbersAreFatal ==
    HasDuplicateNumbers =>
        /\ ~(pc = "migrated" /\ call.status = "returned")
        /\ \A i \in 1..Len(call.executed) : ~Conflicting(call.executed[i])
        /\ \A f \in applied : ~Conflicting(f)

\* C10: the pipeline and the master sync run only in a process whose
\* apply_migrations call has returned, and a process whose call has raised
\* has ended without running either.
C10_MigrationsGateTheService ==
    /\ (pc \in {"service", "sleeping", "sync"} \/ last_run.done) =>
           call.status = "returned"
    /\ call.status = "raised" => (pc = "exited" /\ ~last_run.done)

\* A pipeline run has ended in a process whose call applied units first.
C10_Witness ==
    /\ pc = "sleeping"
    /\ last_run.done
    /\ call.status = "returned"
    /\ applied # {}
    /\ starts = 1

\* C11: when apply_migrations has failed at startup, the process ends with
\* an exit status other than 0.
C11_FailureExitsNonZero ==
    (pc = "exited" /\ call.status = "raised") =>
        (exit_code # <<>> /\ exit_code[1] # 0)

\* C12: in service mode a run starts only from the head of the loop, one at
\* a time; every run, whether it completed, returned a failure summary or
\* ended in an error, is followed by the sleep, and the sleep by the head of
\* the loop: short of a kill the process never leaves the loop.
C12_LoopSurvivesRuns ==
    [][ /\ runs' # runs =>
              /\ pc = "service"
              /\ runs' = runs + 1
              /\ last_run'.done
              /\ pc' = "sleeping"
        /\ (pc = "sleeping" /\ pc' # pc) => pc' \in {"service", "killed"}
        /\ (pc = "service" /\ pc' # pc) => pc' \in {"sleeping", "killed"}
      ]_vars

\* A run has ended that the loop started after a run that failed.
C12_Witness ==
    /\ pc = "sleeping"
    /\ last_run.done
    /\ last_run.after_error

----------------------------------------------------------------------------
(* Properties of a call on the processor *)

\* The data rows of the file the last call found, and the positions of the
\* rows whose controller code starts with 'PC'.
RawOf == last_run.file.rows

HasPrefixPC(m) == Len(m) >= 2 /\ SubSeq(m, 1, 2) = <<"P", "C">>

InScopeRows == { i \in 1..Len(RawOf) : HasPrefixPC(RawOf[i].mrp) }

\* The rows the last call added to production_records.
NewRows ==
    { production_records.rows[n] :
        n \in (Len(last_run.before.rows) + 1)..Len(production_records.rows) }

\* The raw row at position i is the origin of the stored row.
IsOrigin(i, row) ==
    /\ RawOf[i].order_number = row.order_number
    /\ ParseInputDatetime(RawOf[i].input_datetime) = row.input_datetime
    /\ RawOf[i].item_code = row.item_code

\* The last call returned a count summary.
Counted == last_run.done /\ last_run.summary.status = "ok"

\* The counts of the summary cover rows in scope only, and every row stored
\* stems from a row in scope.
OnlyInScope ==
    /\ last_run.summary.total_rows <= Cardinality(InScopeRows)
    /\ last_run.summary.successful_inserts + last_run.summary.failed_rows
          <= Cardinality(InScopeRows)
    /\ \A row \in NewRows : \E i \in InScopeRows : IsOrigin(i, row)

\* C13 as stated: in whatever file, a row whose controller code does not
\* start with 'PC' (a row without a controller code included) is not stored
\* and is counted in none of total_rows, successful_inserts, failed_rows.
C13_OutOfScopeNeverCounted ==
    Counted => OnlyInScope

\* C13, amended: in a file whose header names the controller column, a row
\* whose controller code does not start with 'PC' (an empty cell included)
\* is not stored and is counted in none of total_rows, successful_inserts,
\* failed_rows.  In a file whose header lacks the column the filter is
\* skipped: every row with a readable timestamp is counted in total_rows,
\* fails validation for the missing controller, is counted in failed_rows
\* and is not stored.
C13_OutOfScopeExcluded ==
    /\ (Counted /\ "mrp" \in last_run.file.columns) => OnlyInScope
    /\ (Counted /\ "mrp" \notin last_run.file.columns) =>
          /\ last_run.summary.total_rows =
                Cardinality({ i \in 1..Len(RawOf) :
                                ParseInputDatetime(RawOf[i].input_datetime) # "NaT" })
          /\ last_run.summary.failed_rows = last_run.summary.total_rows
          /\ last_run.summary.successful_inserts = 0
          /\ production_records = last_run.before

\* A call has stored a row of a file that also holds a row without a
\* controller code.
C13_Witness ==
    /\ Counted
    /\ "mrp" \in last_run.file.columns
    /\ \E i \in 1..Len(RawOf) : RawOf[i].mrp = NoCode
    /\ \E i \in 1..Len(RawOf) : RawOf[i].mrp = PC1
    /\ last_run.summary.successful_inserts >= 1
    /\ NewRows # {}

\* The rows in scope that the timestamp parse keeps, and among them the
\* rows that miss the item code.
KeptRows ==
    { i \in InScopeRows : ParseInputDatetime(RawOf[i].input_datetime) # "NaT" }

MissingItem == { i \in KeptRows : RawOf[i].item_code = NULL }

\* The last call read a file with a complete header and the store accepted
\* what the call wrote.
WellFormedRun ==
    /\ last_run.done
    /\ last_run.file.kind = "data"
    /\ last_run.file.columns = AllColumns
    /\ ~last_run.store_failed

\* C14: a call on a well-formed file returns a count summary, whatever its
\* rows: every row that misses the item code is counted in failed_rows and
\* is not stored, every other row is counted in successful_inserts and its
\* key is in the store; this also when no row is valid.
C14_InvalidRowsNeverAbort ==
    WellFormedRun =>
        /\ ~last_run.error
        /\ last_run.summary.status = "ok"
        /\ last_run.summary.failed_rows = Cardinality(MissingItem)
        /\ last_run.summary.successful_inserts = Cardinality(KeptRows \ MissingItem)
        /\ last_run.summary.total_rows = Cardinality(KeptRows)
        /\ \A row \in NewRows : row.item_code # NULL
        /\ \A i \in KeptRows \ MissingItem :
              <<RawOf[i].order_number, ParseInputDatetime(RawOf[i].input_datetime)>>
                  \in KeysOf(production_records.rows)

\* A call has stored a row of a batch in which another row misses the item
\* code.
C14_Witness ==
    /\ WellFormedRun
    /\ MissingItem # {}
    /\ KeptRows \ MissingItem # {}
    /\ NewRows # {}
    /\ last_run.summary.failed_rows >= 1

\* The amount the specification gives a row: actual quantity x standard
\* cost of its item code in the master, 0 when the master has no cost for it.
ExpectedAmount(r, master) ==
    LET known == { e \in master : e.item_code = r.item_code /\ e.standard_cost # <<>> }
    IN  IF known = {} THEN 0
        ELSE r.actual_quantity * (CHOOSE e \in known : TRUE).standard_cost[1]

C15_WitnessUnmatched ==
    /\ WellFormedRun
    /\ last_run.master # {}
    /\ \E row \in NewRows :
          /\ row.amount = 0
          /\ \A e \in last_run.master : e.item_code # row.item_code

\* The codes of the master file of the last sync, blanks stripped, and for a
\* code the position of its last occurrence in the file.
FileCodes == { Strip(last_sync.file.rows[i].item_code) : i \in 1..Len(last_sync.file.rows) }

LastOccurrence(c) ==
    CHOOSE i \in 1..Len(last_sync.file.rows) :
        /\ Strip(last_sync.file.rows[i].item_code) = c
        /\ \A j \in (i + 1)..Len(last_sync.file.rows) :
              Strip(last_sync.file.rows[j].item_code) # c

SyncSucceeded == last_sync.done /\ last_sync.outcome = "ok"

\* C16: after a sync that succeeded with file F, item_master (committed, and
\* as the connection and the snapshot of the processor see it) holds one
\* entry for each code of F and no other entry, each with the cost of the
\* last occurrence of its code in F; whatever the table held before is gone.
C16_SyncReplacesMaster ==
    SyncSucceeded =>
        /\ { e.item_code : e \in item_master.rows } = FileCodes
        /\ Cardinality(item_master.rows) = Cardinality(FileCodes)
        /\ \A e \in item_master.rows :
              e.standard_cost = last_sync.file.rows[LastOccurrence(e.item_code)].standard_cost
        /\ ~pending.open
        /\ snapshot = item_master.rows

\* A sync has succeeded on a table that held a code the file does not hold
\* and a code for which the file has another cost.
C16_Witness ==
    /\ SyncSucceeded
    /\ \E e \in last_sync.before.rows : e.item_code \notin FileCodes
    /\ \E e \in last_sync.before.rows, f \in item_master.rows :
          e.item_code = f.item_code /\ e.standard_cost # f.standard_cost

\* A sync has succeeded with a file that holds a code twice.
C16_WitnessDuplicates ==
    /\ SyncSucceeded
    /\ Len(last_sync.file.rows) > Cardinality(FileCodes)

\* The last sync call issued the DELETE and did not reach its commit: the
\* insert failed, or the process died.
SyncBroken == last_sync.done /\ last_sync.outcome \in {"failed", "interrupted"}

\* C17: when a sync call has failed or has been interrupted after its
\* DELETE, item_master holds what it held before the call, both as committed
\* and as the connection sees it, and nothing of the call stays pending; this
\* remains so after later calls that commit on the connection.
C17_SyncIsAtomic ==
    SyncBroken =>
        /\ item_master = last_sync.before
        /\ Visible(item_master, pending) = last_sync.before
        /\ ~pending.open

\* The insert of a sync on a non-empty table has failed, and a later call on
\* the same connection has committed rows.
C17_Witness ==
    /\ last_sync.done
    /\ last_sync.outcome = "failed"
    /\ last_sync.before.rows # {}
    /\ last_run.done
    /\ NewRows # {}

\* A sync on a non-empty table has been interrupted after its DELETE.
C17_WitnessInterrupted ==
    /\ last_sync.done
    /\ last_sync.outcome = "interrupted"
    /\ last_sync.before.rows # {}

\* The file holds no data row: zero bytes, or the header line alone.
EmptyOrHeaderOnly(file) ==
    file.kind = "empty" \/ (file.kind = "data" /\ file.rows = <<>>)

\* C18: a call of process_file_and_load_to_db that finds an empty file or a
\* file with the header alone raises nothing, returns the summary with
\* total_rows = 0, successful_inserts = 0, failed_rows = 0, and changes no
\* table of the store.
C18_EmptyFileIsNoOp ==
    [][ (runs' # runs /\ last_run'.done /\ EmptyOrHeaderOnly(last_run'.file)) =>
            /\ ~last_run'.error
            /\ last_run'.summary = CountSummary(0, 0, 0)
            /\ UNCHANGED storeVars
      ]_vars

\* A call on a store that holds rows has found a file of zero bytes.
C18_Witness ==
    /\ last_run.done
    /\ last_run.file.kind = "empty"
    /\ last_run.before.rows # <<>>
    /\ production_records.rows # <<>>

\* A call on a store that holds rows has found the header line alone.
C18_WitnessHeaderOnly ==
    /\ last_run.done
    /\ last_run.file.kind = "data"
    /\ last_run.file.rows = <<>>
    /\ last_run.before.rows # <<>>

\* C19: a call of process_file_and_load_to_db that finds no file at the data
\* path raises nothing and returns the zero-row summary (total_rows = 0,
\* successful_inserts = 0, failed_rows = 0).
C19_MissingFileIsZeroRows ==
    (last_run.done /\ last_run.file.kind = "missing") =>
        /\ ~last_run.error
        /\ last_run.summary = CountSummary(0, 0, 0)

\* An error arose inside the last call: at the read (no file, or a file that
\* cannot be read), at the join (the file has no item code column to join
\* on), or at the insert (the store refused it).
ErrorInside ==
    \/ last_run.file.kind \in {"missing", "unreadable"}
    \/ last_run.store_failed
    \/ /\ last_run.file.kind = "data"
       /\ "item_code" \notin last_run.file.columns
       /\ last_run.master # {}
       /\ KeptRows # {}

\* C20: whatever error arises inside process_file_and_load_to_db, at the
\* read, the join or the insert, the call returns: no error leaves it, and
\* the summary carries the status "failed" and the message of the error.
C20_ErrorsBecomeSummary ==
    (last_run.done /\ ErrorInside) =>
        /\ ~last_run.error
        /\ last_run.summary.status = "failed"
        /\ last_run.summary.error # NULL

\* The store has refused the insert of a call whose batch held valid rows.
C20_Witness ==
    /\ last_run.done
    /\ last_run.store_failed
    /\ last_run.batch # <<>>
    /\ last_run.summary.status = "failed"
    /\ production_records = last_run.before

\* The join of a call has failed for want of the item code column.
C20_WitnessJoin ==
    /\ last_run.done
    /\ last_run.file.kind = "data"
    /\ "item_code" \notin last_run.file.columns
    /\ last_run.master # {}
    /\ last_run.summary.status = "failed"

----------------------------------------------------------------------------
(* Properties of the field validators *)

\* The content of a string between its first and its last character that is
\* not a blank; the empty string when it holds blanks only.
Trimmed(q) ==
    IF \A i \in 1..Len(q) : q[i] = " " THEN <<>>
    ELSE LET first == CHOOSE i \in 1..Len(q) :
                          q[i] # " " /\ \A k \in 1..(i - 1) : q[k] = " "
             last  == CHOOSE j \in 1..Len(q) :
                          q[j] # " " /\ \A k \in (j + 1)..Len(q) : q[k] = " "
         IN  SubSeq(q, first, last)

AllDigits(q) == q # <<>> /\ \A i \in 1..Len(q) : q[i] \in {"0", "3"}

\* C21: clean_sap_numbers gives: for a value that is not a string, the
\* value; for a string of blanks (the empty string included), None; for a
\* string that is all digits once trimmed, the digits without their leading
\* zeros, and "0" when all are zeros; for any other string its trimmed
\* content.
C21_CleanSapNumbers ==
    result.fn = "clean_sap_numbers" =>
        LET out == result.value
            t   == Trimmed(arg.chars)
        IN  /\ arg.type # "str" => out = arg
            /\ (arg.type = "str" /\ t = <<>>) => out = None
            /\ (arg.type = "str" /\ AllDigits(t)) =>
                  /\ out.type = "str"
                  /\ Len(out.chars) >= 1
                  /\ Len(out.chars) <= Len(t)
                  /\ out.chars = SubSeq(t, Len(t) - Len(out.chars) + 1, Len(t))
                  /\ \A i \in 1..(Len(t) - Len(out.chars)) : t[i] = "0"
                  /\ (Len(out.chars) > 1 => out.chars[1] # "0")
            /\ (arg.type = "str" /\ t # <<>> /\ ~AllDigits(t)) => out = Str(t)

\* The validator has been applied to a string of zeros with a blank.
C21_Witness ==
    /\ result.fn = "clean_sap_numbers"
    /\ arg.type = "str"
    /\ Len(arg.chars) = 3
    /\ arg.chars[1] = " "
    /\ arg.chars[2] = "0"
    /\ arg.chars[3] = "0"
    /\ result.value = Str(<<"0">>)

\* The value is in the compact form YYYYMMDD, alone or followed by a decimal
\* point and a fractional part.
IsCompactDate(q) ==
    /\ Len(q) >= 8
    /\ \A i \in 1..8 : q[i] \in Digits
    /\ Len(q) > 8 => q[9] = "."

\* The day the compact form names is a day of the calendar.
IsCalendarDay(y, m, d) ==
    /\ y >= 1
    /\ m \in 1..12
    /\ d >= 1
    /\ d <= (CASE m = 2 -> (IF (y % 4 = 0 /\ y % 100 # 0) \/ y % 400 = 0 THEN 29 ELSE 28)
               [] m \in {4, 6, 9, 11} -> 30
               [] OTHER -> 31)

\* C22: parse_planned_completion_date gives no date for None and for a
\* blank value; for a value in the compact form YYYYMMDD (a fractional part
\* cut off) the date it names; for any other value that is present it fails
\* the row.
C22_DateAbsentOrCompactOrInvalid ==
    result.fn = "parse_planned_completion_date" =>
        LET q == arg.chars
            blank == arg.type = "none" \/ \A i \in 1..Len(q) : q[i] = " "
            y == NumberOf(SubSeq(q, 1, 4))
            m == NumberOf(SubSeq(q, 5, 6))
            d == NumberOf(SubSeq(q, 7, 8))
            named == IsCompactDate(q) /\ IsCalendarDay(y, m, d)
        IN  /\ blank => result.value = NoDate
            /\ (~blank /\ named) => result.value = Date(y, m, d)
            /\ (~blank /\ ~named) => result.value = InvalidDate

\* The timestamps of the files that are written in the pattern
\* %Y/%m/%d %H:%M, and the rows of the last file that carry one.
InPattern == {T1000, T1005}

ParsedRows == { i \in 1..Len(RawOf) : RawOf[i].input_datetime \in InPattern }

SyncOverFileLackingColumn ==
    /\ pc = "exited"
    /\ mode = "sync"
    /\ last_sync.done
    /\ last_sync.file.found
    /\ MasterColumns \ last_sync.file.columns # {}

\* C24: a master file that lacks the item code column or the standard cost
\* column is a fatal configuration error: the sync does not complete as a
\* successful one, and the process does not exit with status 0.
C24_MissingColumnIsFatal ==
    SyncOverFileLackingColumn =>
        /\ last_sync.outcome # "ok"
        /\ exit_code # <<0>>

\* The last unit a call of apply_migrations has executed is 003, and the
\* table as the call found it (no unit before 003 writes to it).
Ran003 ==
    /\ call.executed # <<>>
    /\ call.executed[Len(call.executed)].body = "003"
    /\ call.before.production_records.exists
    /\ ~call.store_error

Raised003    == Ran003 /\ pc = "exited" /\ call.failed # <<>>
Committed003 == Ran003 /\ pc = "update_version"

OldRows == call.before.production_records.rows

\* The fields of a row that the copy of 003 lists.
Copied(r) ==
    [id |-> r.id, order_number |-> r.order_number, input_datetime |-> r.input_datetime,
     item_code |-> r.item_code, amount |-> r.amount]

NothingChanged003 ==
    /\ production_records = call.before.production_records
    /\ "production_records_old" \notin aux_tables
    /\ GetSchemaVersion(schema_version) = 2

\* C25 as stated: 003 either commits with every row of the old table, each
\* with the same id and the same value in every column, or raises with
\* production_records as before, no production_records_old and version 2.
C25_AllOrNothingEveryColumn ==
    /\ Raised003 => NothingChanged003
    /\ Committed003 =>
          /\ production_records.rows = OldRows
          /\ "production_records_old" \notin aux_tables

\* C25: 003 either commits, and the table then has the UNIQUE constraint and
\* holds every row of the old table in the same order with the same id and
\* the same value in every column the copy lists, created_at being set anew;
\* or it raises with production_records as before, no production_records_old
\* and version 2.  A table with two rows of one key makes it raise.
C25_AllOrNothingCopiedColumns ==
    /\ Raised003 => NothingChanged003
    /\ Committed003 =>
          /\ production_records.exists /\ production_records.unique
          /\ Len(production_records.rows) = Len(OldRows)
          /\ \A i \in 1..Len(OldRows) :
                /\ Copied(production_records.rows[i]) = Copied(OldRows[i])
                /\ production_records.rows[i].created_at = "migration_003"
          /\ "production_records_old" \notin aux_tables
    /\ (Ran003 /\ HasDuplicateKeys(OldRows)) => call.failed # <<>>

\* 003 has raised on a table that holds two rows with one key.
C25_Witness ==
    /\ Raised003
    /\ HasDuplicateKeys(OldRows)
    /\ Len(production_records.rows) = 2

\* 003 has committed on a table that holds rows.
C25_WitnessCommitted ==
    /\ Committed003
    /\ Len(OldRows) = 2
    /\ production_records.unique

\* A call has executed 002 on an empty or missing item_master while the
\* master file was missing or unreadable, and the store itself did not fail.
SeedingFailed ==
    /\ call.seed # <<>>
    /\ call.before.item_master.rows = {}
    /\ ~call.seed[1].found \/ call.seed[1].columns = {}
    /\ ~call.store_error

Executed(body) == \E i \in 1..Len(call.executed) : call.executed[i].body = body

\* C26: when the seeding inside 002 fails because the master file is missing
\* or unreadable, 002 does not fail: item_master exists and is empty,
\* schema_version is at least 2 once the version of 002 is written, the call
\* goes on to 003, and a call in which no later unit fails returns with
\* every later unit executed and the highest version.
C26_SeedingFailureIsNotFatal ==
    SeedingFailed =>
        /\ \A i \in 1..Len(call.failed) : call.failed[i].body # "002"
        /\ item_master.exists
        /\ ~last_sync.done => item_master.rows = {}
        /\ (pc \in {"for_loop", "migrated", "exited"} /\ call.status # "killed") =>
              GetSchemaVersion(schema_version) >= 2
        /\ call.status \in {"returned", "raised"} => Executed("003")
        /\ call.status = "returned" =>
              /\ Executed("004") /\ Executed("005")
              /\ schema_version.version = HighestNumber

\* A call whose seeding failed has returned with the later units applied.
C26_Witness ==
    /\ SeedingFailed
    /\ call.status = "returned"
    /\ pc = "migrated"
    /\ item_master.exists /\ item_master.rows = {}
    /\ schema_version.version = 5

\* The amounts, in halves, of the records of a frame that fall in week w,
\* and of all its records.
RECURSIVE AmountOfWeek(_, _)
AmountOfWeek(df, w) ==
    IF df = <<>> THEN 0
    ELSE (IF GetWeekOfMonth(Head(df).date) = w THEN Head(df).amount ELSE 0)
         + AmountOfWeek(Tail(df), w)

RECURSIVE AmountOfAll(_)
AmountOfAll(df) ==
    IF df = <<>> THEN 0 ELSE Head(df).amount + AmountOfAll(Tail(df))

Reported == result.fn = "generate_weekly_summary"

\* C27: in the weekly summary the total of every week is the sum of amount
\* over the records of that week, and the grand total is the sum of amount
\* over all records, whatever controller codes with the 'PC' prefix the
\* records carry.
C27_WeeklyTotalsAreSums ==
    Reported =>
        /\ \A w \in result.value.weeks :
              2 * result.value.total[w] = AmountOfWeek(arg, w)
        /\ 2 * result.value.grand_total = AmountOfAll(arg)

\* C28: in every count summary total_rows is the sum of successful_inserts
\* and failed_rows.
C28_CountsAddUp ==
    Counted =>
        last_run.summary.total_rows =
            last_run.summary.successful_inserts + last_run.summary.failed_rows

\* A call has returned a summary that counts both a valid and an invalid row.
C28_Witness ==
    /\ Counted
    /\ last_run.summary.successful_inserts >= 1
    /\ last_run.summary.failed_rows >= 1

\* C29: successful_inserts is the number of rows the call added to
\* production_records, whatever the table held before.
C29_InsertsAreRowsAdded ==
    (Counted /\ ~StoreFailed) =>
        last_run.summary.successful_inserts =
            Len(production_records.rows) - Len(last_run.before.rows)

\* The table the call found, had it been built by the migrations through 003.
WithConstraint(pr) == [pr EXCEPT !.unique = TRUE]

\* C30: on a table built by create_tables a call of insert_production_records
\* leaves the rows it would leave on the same table built by the migrations
\* through 003.
C30_CreateTablesEnforcesKey ==
    (Counted /\ ~StoreFailed /\ last_run.batch # <<>>) =>
        production_records.rows =
            InsertProductionRecords(WithConstraint(last_run.before),
                                    last_run.batch, TRUE).table.rows

====
